---------------------------- MODULE Spec2Model ----------------------------
(***************************************************************************)
(* ocean-ml-data-prep: restoring a "shrunk" llc4320 surface field onto the *)
(* full grid with the wet-cell mask hFacC_k0.data, and splitting the grid  *)
(* into the eastern and western hemisphere fields.                         *)
(*                                                                         *)
(* Two programs are modelled, statement by statement:                      *)
(*   Spec        the notebook prep-superresolution-llc4320.ipynb           *)
(*               (cell "DATA_PATH", cell "Load mask and SSS data"), plus   *)
(*               the reuse of the loaded mask buffer for a further         *)
(*               snapshot;                                                 *)
(*   SpecReadme  the usage example of the README (no explicit length       *)
(*               check: numpy's boolean-mask assignment decides).          *)
(* Two more specifications apply the pure functions of utils.mds2d to      *)
(* inputs drawn from bounded sets:                                         *)
(*   SpecSplit   mds2d on dense grids of several geometries;               *)
(*   SpecShape   the shapes mds2d returns, reference geometry included.    *)
(*                                                                         *)
(* float32 values are modelled by their printed form; "nan" is np.nan.     *)
(* x != 0 is (x # Zero), x == 0 is (x = Zero): NaN is nonzero.             *)
(***************************************************************************)
EXTENDS Integers, Sequences, FiniteSets

VARIABLES
    dir_exists,     \* DATA_PATH.exists()
    mask_exists,    \* hFacC_k0.data is present
    shrunk_exists,  \* SSS.0001400112.shrunk is present
    geom,           \* grid geometry [rows, cols] known to mds2d
    mask_file,      \* content of hFacC_k0.data on disk (never written)
    mask,           \* the numpy buffer named mask
    mask_in,        \* value of mask when the current snapshot was loaded
    sss_shrunk,     \* the numpy buffer named sss_shrunk
    shrunk_in,      \* value of sss_shrunk as loaded from its file
    sss_east,       \* first array returned by utils.mds2d
    sss_west,       \* second array returned by utils.mds2d
    shapes,         \* the two shapes printed after the split
    rejoined,       \* result of mapping the tiles back to a flat grid
    pc,             \* next statement
    error,          \* exception raised to the caller, "none" if none
    steps,          \* statements executed so far
    reused          \* TRUE once the mask buffer served a further snapshot

vars == <<dir_exists, mask_exists, shrunk_exists, geom, mask_file, mask,
          mask_in, sss_shrunk, shrunk_in, sss_east, sss_west, shapes,
          rejoined, pc, error, steps, reused>>

----------------------------------------------------------------------------
(* Bounds of the model *)

\* largest number of cells of a grid in Spec and SpecReadme
MaxCells == 4
\* largest number of cells of a grid in SpecSplit
MaxSplitCells == 8
\* largest row/column count of the small geometries in SpecShape
MaxShapeDim == 8

(* Program constants: the reference geometry *)
ROWS == 12960
COLS == 8640

----------------------------------------------------------------------------
(* Values *)

Zero == "0.0"
NaN == "nan"
\* mask weights: 0 is land, nonzero is ocean
MaskVals == {"0.0", "1.0"}
\* values a shrunk snapshot may hold; 0.0 is a legal salinity/temperature
DataVals == {"0.0", "1.0", "2.0"}

NoArray == <<>>
NoShape == <<0, 0>>

ReferenceGeometry == [rows |-> ROWS, cols |-> COLS]

GridSize(g) == 2 * g.rows * g.cols

GeometriesUpTo(n) ==
    {g \in [rows : 1..n, cols : 1..n] : GridSize(g) <= n}

\* every flat float vector of length at most n over the values vs
VectorsUpTo(n, vs) == UNION {[1..l -> vs] : l \in 0..n}

----------------------------------------------------------------------------
(* numpy operations used by the restoration *)

\* np.sum(a != 0)
CountNonzero(a) == Cardinality({i \in DOMAIN a : a[i] # Zero})

\* rank of position i among the positions of a that are != 0
WetRank(a, i) == Cardinality({j \in 1..i : a[j] # Zero})

\* a[a != 0] = v raises ValueError unless v has one value per selected
\* cell or is a single value to broadcast; the test precedes any write
BoolAssignRaises(a, v) == Len(v) # CountNonzero(a) /\ Len(v) # 1

\* a[a != 0] = v : the k-th selected cell, in index order, receives v[k];
\* a one-element v is broadcast to every selected cell
AssignNonzero(a, v) ==
    [i \in DOMAIN a |->
        IF a[i] # Zero
        THEN IF Len(v) = CountNonzero(a) THEN v[WetRank(a, i)] ELSE v[1]
        ELSE a[i]]

\* variant: the fill is forgotten
AssignZeroKeepsZero(a, x) == a

\* variant: the fill selects the cells that were 0 in the mask as loaded
AssignZeroOriginalMask(a, x) ==
    [i \in DOMAIN a |-> IF mask_in[i] = Zero THEN x ELSE a[i]]

\* a[a == 0] = x : evaluated on the CURRENT content of a
AssignZero(a, x) == [i \in DOMAIN a |-> IF a[i] = Zero THEN x ELSE a[i]]

----------------------------------------------------------------------------
(* utils.mds2d: utils.py is not part of the available sources; the mapping *)
(* follows the design text: each tile is a row-major 2-D view over one     *)
(* contiguous half of the flat grid, east rows x cols, west cols x rows.   *)

\* variant: both tiles 8640 x 12960
mds2dShapeSame(g) == <<<<g.cols, g.rows>>, <<g.cols, g.rows>>>>

\* shapes of (east, west): (12960, 8640) (8640, 12960) in the reference
mds2dShape(g) == <<<<g.rows, g.cols>>, <<g.cols, g.rows>>>>

ElementCount(shape) == shape[1] * shape[2]

\* flat position of east[r][c]
EastIndex(g, r, c) == (r - 1) * mds2dShape(g)[1][2] + c

\* variant: the west half starts one cell early
WestIndexOverlap(g, r, c) ==
    ElementCount(mds2dShape(g)[1]) - 1 + (r - 1) * mds2dShape(g)[2][2] + c

\* flat position of west[r][c]
WestIndex(g, r, c) ==
    ElementCount(mds2dShape(g)[1]) + (r - 1) * mds2dShape(g)[2][2] + c

mds2d(dense, g) ==
    [east |-> [r \in 1..mds2dShape(g)[1][1] |->
                 [c \in 1..mds2dShape(g)[1][2] |-> dense[EastIndex(g, r, c)]]],
     west |-> [r \in 1..mds2dShape(g)[2][1] |->
                 [c \in 1..mds2dShape(g)[2][2] |-> dense[WestIndex(g, r, c)]]]]

\* numpy .shape of a 2-D array held as a sequence of rows
ShapeOf(t) == IF Len(t) = 0 THEN NoShape ELSE <<Len(t), Len(t[1])>>

\* row-major flattening of a 2-D array
RECURSIVE Flatten(_)
Flatten(t) == IF Len(t) = 0 THEN <<>> ELSE t[1] \o Flatten(Tail(t))

\* the inverse mapping: east cells, then west cells, back to flat order
mds2dInverse(east, west) == Flatten(east) \o Flatten(west)

----------------------------------------------------------------------------
(* Initial states *)

Untouched ==
    /\ mask = NoArray
    /\ mask_in = NoArray
    /\ sss_shrunk = NoArray
    /\ shrunk_in = NoArray
    /\ sss_east = NoArray
    /\ sss_west = NoArray
    /\ shapes = <<NoShape, NoShape>>
    /\ rejoined = NoArray
    /\ error = "none"
    /\ steps = {}
    /\ reused = FALSE

\* files can only be present inside an existing directory
Filesystem ==
    /\ dir_exists \in BOOLEAN
    /\ mask_exists \in BOOLEAN
    /\ shrunk_exists \in BOOLEAN
    /\ (mask_exists \/ shrunk_exists) => dir_exists

Init ==
    /\ Filesystem
    /\ geom \in GeometriesUpTo(MaxCells)
    /\ mask_file \in [1..GridSize(geom) -> MaskVals]
    /\ Untouched
    /\ pc = "check_path"

----------------------------------------------------------------------------
(* The notebook. Its cells run top to bottom; an exception that reaches    *)
(* the caller ends the run, so no statement follows a raise.               *)

Raise(e) ==
    /\ error' = e
    /\ pc' = "failed"

\* if not DATA_PATH.exists(): raise FileNotFoundError(...)
CheckDataPath ==
    /\ pc = "check_path"
    /\ steps' = steps \cup {"check_path"}
    /\ IF dir_exists
       THEN pc' = "load_mask" /\ error' = error
       ELSE Raise("FileNotFoundError")
    /\ UNCHANGED <<dir_exists, mask_exists, shrunk_exists, geom, mask_file,
                   mask, mask_in, sss_shrunk, shrunk_in, sss_east, sss_west,
                   shapes, rejoined, reused>>

\* mask = np.fromfile(DATA_PATH / 'hFacC_k0.data', '>f4'); on a missing
\* file the except clause prints the error and re-raises it
LoadMask ==
    /\ pc = "load_mask"
    /\ steps' = steps \cup {"load_mask"}
    /\ IF mask_exists
       THEN /\ mask' = mask_file
            /\ pc' = "load_shrunk"
            /\ error' = error
       ELSE /\ Raise("FileNotFoundError")
            /\ mask' = mask
    /\ UNCHANGED <<dir_exists, mask_exists, shrunk_exists, geom, mask_file,
                   mask_in, sss_shrunk, shrunk_in, sss_east, sss_west,
                   shapes, rejoined, reused>>

\* variant: a missing snapshot file is read as an empty snapshot
LoadShrunkSilent ==
    /\ pc = "load_shrunk"
    /\ steps' = steps \cup {"load_shrunk"}
    /\ \E s \in IF shrunk_exists
                THEN VectorsUpTo(GridSize(geom), DataVals) ELSE {<<>>} :
          sss_shrunk' = s /\ shrunk_in' = s
    /\ mask_in' = mask
    /\ pc' = "check_len"
    /\ UNCHANGED <<dir_exists, mask_exists, shrunk_exists, geom, mask_file,
                   mask, sss_east, sss_west, shapes, rejoined, error, reused>>

\* sss_shrunk = np.fromfile(DATA_PATH / 'SSS.0001400112.shrunk', '>f4'):
\* the file holds any number of values
LoadShrunk ==
    /\ pc = "load_shrunk"
    /\ steps' = steps \cup {"load_shrunk"}
    /\ IF shrunk_exists
       THEN /\ \E s \in VectorsUpTo(GridSize(geom), DataVals) :
                 sss_shrunk' = s /\ shrunk_in' = s
            /\ mask_in' = mask
            /\ pc' = "check_len"
            /\ error' = error
       ELSE /\ Raise("FileNotFoundError")
            /\ UNCHANGED <<sss_shrunk, shrunk_in, mask_in>>
    /\ UNCHANGED <<dir_exists, mask_exists, shrunk_exists, geom, mask_file,
                   mask, sss_east, sss_west, shapes, rejoined, reused>>

\* variant: the snapshot is compared with the wet count of the mask file
CheckLengthAgainstFile ==
    /\ pc = "check_len"
    /\ steps' = steps \cup {"check_len"}
    /\ IF Len(sss_shrunk) # CountNonzero(mask_file)
       THEN Raise("ValueError")
       ELSE pc' = "restore" /\ error' = error
    /\ UNCHANGED <<dir_exists, mask_exists, shrunk_exists, geom, mask_file,
                   mask, mask_in, sss_shrunk, shrunk_in, sss_east, sss_west,
                   shapes, rejoined, reused>>

\* if len(sss_shrunk) != np.sum(mask != 0): raise ValueError(...)
CheckLength ==
    /\ pc = "check_len"
    /\ steps' = steps \cup {"check_len"}
    /\ IF Len(sss_shrunk) # CountNonzero(mask)
       THEN Raise("ValueError")
       ELSE pc' = "restore" /\ error' = error
    /\ UNCHANGED <<dir_exists, mask_exists, shrunk_exists, geom, mask_file,
                   mask, mask_in, sss_shrunk, shrunk_in, sss_east, sss_west,
                   shapes, rejoined, reused>>

\* mask[mask != 0] = sss_shrunk
RestoreWet ==
    /\ pc = "restore"
    /\ steps' = steps \cup {"restore"}
    /\ mask' = AssignNonzero(mask, sss_shrunk)
    /\ pc' = "fill"
    /\ UNCHANGED <<dir_exists, mask_exists, shrunk_exists, geom, mask_file,
                   mask_in, sss_shrunk, shrunk_in, sss_east, sss_west,
                   shapes, rejoined, error, reused>>

\* mask[mask == 0] = np.nan
FillDry ==
    /\ pc = "fill"
    /\ steps' = steps \cup {"fill"}
    /\ mask' = AssignZero(mask, NaN)
    /\ pc' = "split"
    /\ UNCHANGED <<dir_exists, mask_exists, shrunk_exists, geom, mask_file,
                   mask_in, sss_shrunk, shrunk_in, sss_east, sss_west,
                   shapes, rejoined, error, reused>>

\* sss_east, sss_west = utils.mds2d(mask); both shapes are printed
Split ==
    /\ pc = "split"
    /\ steps' = steps \cup {"split"}
    /\ sss_east' = mds2d(mask, geom).east
    /\ sss_west' = mds2d(mask, geom).west
    /\ shapes' = <<ShapeOf(sss_east'), ShapeOf(sss_west')>>
    /\ pc' = "done"
    /\ UNCHANGED <<dir_exists, mask_exists, shrunk_exists, geom, mask_file,
                   mask, mask_in, sss_shrunk, shrunk_in, rejoined, error,
                   reused>>

\* A further snapshot of the time series is processed with the mask
\* buffer that is already in memory: the snapshot is read and the
\* restoration statements run again, the mask file is not read again.
LoadNextSnapshot ==
    /\ pc = "done"
    /\ \E s \in VectorsUpTo(GridSize(geom), DataVals) :
          sss_shrunk' = s /\ shrunk_in' = s
    /\ mask_in' = mask
    /\ reused' = TRUE
    /\ pc' = "check_len"
    /\ UNCHANGED <<dir_exists, mask_exists, shrunk_exists, geom, mask_file,
                   mask, sss_east, sss_west, shapes, rejoined, error, steps>>

Next ==
    \/ CheckDataPath
    \/ LoadMask
    \/ LoadShrunk
    \/ CheckLength
    \/ RestoreWet
    \/ FillDry
    \/ Split
    \/ LoadNextSnapshot

Spec == Init /\ [][Next]_vars

----------------------------------------------------------------------------
(* The usage example of the README *)

InitReadme ==
    /\ Filesystem
    /\ geom \in GeometriesUpTo(MaxCells)
    /\ mask_file \in [1..GridSize(geom) -> MaskVals]
    /\ Untouched
    /\ pc = "readme_load_mask"

\* mask = np.fromfile(f'{pth}/hFacC_k0.data', '>f4')
ReadmeLoadMask ==
    /\ pc = "readme_load_mask"
    /\ steps' = steps \cup {"load_mask"}
    /\ IF mask_exists
       THEN /\ mask' = mask_file
            /\ pc' = "readme_load_shrunk"
            /\ error' = error
       ELSE /\ Raise("FileNotFoundError")
            /\ mask' = mask
    /\ UNCHANGED <<dir_exists, mask_exists, shrunk_exists, geom, mask_file,
                   mask_in, sss_shrunk, shrunk_in, sss_east, sss_west,
                   shapes, rejoined, reused>>

\* sss_shrunk = np.fromfile(f'{pth}/SSS.0001400112.shrunk', '>f4')
ReadmeLoadShrunk ==
    /\ pc = "readme_load_shrunk"
    /\ steps' = steps \cup {"load_shrunk"}
    /\ IF shrunk_exists
       THEN /\ \E s \in VectorsUpTo(GridSize(geom), DataVals) :
                 sss_shrunk' = s /\ shrunk_in' = s
            /\ mask_in' = mask
            /\ pc' = "readme_restore"
            /\ error' = error
       ELSE /\ Raise("FileNotFoundError")
            /\ UNCHANGED <<sss_shrunk, shrunk_in, mask_in>>
    /\ UNCHANGED <<dir_exists, mask_exists, shrunk_exists, geom, mask_file,
                   mask, sss_east, sss_west, shapes, rejoined, reused>>

\* mask[mask != 0] = sss_shrunk, with no length test before it: numpy
\* raises ValueError for a vector it can neither copy nor broadcast
ReadmeRestoreWet ==
    /\ pc = "readme_restore"
    /\ steps' = steps \cup {"restore"}
    /\ IF BoolAssignRaises(mask, sss_shrunk)
       THEN /\ Raise("ValueError")
            /\ mask' = mask
       ELSE /\ mask' = AssignNonzero(mask, sss_shrunk)
            /\ pc' = "readme_fill"
            /\ error' = error
    /\ UNCHANGED <<dir_exists, mask_exists, shrunk_exists, geom, mask_file,
                   mask_in, sss_shrunk, shrunk_in, sss_east, sss_west,
                   shapes, rejoined, reused>>

\* mask[mask == 0] = np.nan
ReadmeFillDry ==
    /\ pc = "readme_fill"
    /\ steps' = steps \cup {"fill"}
    /\ mask' = AssignZero(mask, NaN)
    /\ pc' = "readme_split"
    /\ UNCHANGED <<dir_exists, mask_exists, shrunk_exists, geom, mask_file,
                   mask_in, sss_shrunk, shrunk_in, sss_east, sss_west,
                   shapes, rejoined, error, reused>>

\* sss_east, sss_west = utils.mds2d(mask); print(sss_east.shape, ...)
ReadmeSplit ==
    /\ pc = "readme_split"
    /\ steps' = steps \cup {"split"}
    /\ sss_east' = mds2d(mask, geom).east
    /\ sss_west' = mds2d(mask, geom).west
    /\ shapes' = <<ShapeOf(sss_east'), ShapeOf(sss_west')>>
    /\ pc' = "done"
    /\ UNCHANGED <<dir_exists, mask_exists, shrunk_exists, geom, mask_file,
                   mask, mask_in, sss_shrunk, shrunk_in, rejoined, error,
                   reused>>

NextReadme ==
    \/ ReadmeLoadMask
    \/ ReadmeLoadShrunk
    \/ ReadmeRestoreWet
    \/ ReadmeFillDry
    \/ ReadmeSplit

SpecReadme == InitReadme /\ [][NextReadme]_vars

----------------------------------------------------------------------------
(* mds2d applied to dense grids drawn from a bounded set *)

\* values of a restored grid: data or NaN, never 0
DenseVals == {"1.0", "nan"}

InitSplit ==
    /\ dir_exists = TRUE /\ mask_exists = TRUE /\ shrunk_exists = TRUE
    /\ geom \in GeometriesUpTo(MaxSplitCells)
    /\ mask_file = NoArray
    /\ mask \in [1..GridSize(geom) -> DenseVals]
    /\ mask_in = NoArray
    /\ sss_shrunk = NoArray
    /\ shrunk_in = NoArray
    /\ sss_east = NoArray
    /\ sss_west = NoArray
    /\ shapes = <<NoShape, NoShape>>
    /\ rejoined = NoArray
    /\ error = "none"
    /\ steps = {}
    /\ reused = FALSE
    /\ pc = "split"

\* the tiles are mapped back to the flat order
Rejoin ==
    /\ pc = "done"
    /\ rejoined' = mds2dInverse(sss_east, sss_west)
    /\ pc' = "rejoined"
    /\ UNCHANGED <<dir_exists, mask_exists, shrunk_exists, geom, mask_file,
                   mask, mask_in, sss_shrunk, shrunk_in, sss_east, sss_west,
                   shapes, error, steps, reused>>

NextSplit == Split \/ Rejoin

SpecSplit == InitSplit /\ [][NextSplit]_vars

----------------------------------------------------------------------------
(* the shapes mds2d returns, for small geometries and the reference one *)

InitShape ==
    /\ dir_exists = TRUE /\ mask_exists = TRUE /\ shrunk_exists = TRUE
    /\ geom \in [rows : 1..MaxShapeDim, cols : 1..MaxShapeDim]
                   \cup {ReferenceGeometry}
    /\ mask_file = NoArray
    /\ Untouched
    /\ pc = "shape"

\* print(sss_east.shape, sss_west.shape) for the geometry, without the data
PrintShapes ==
    /\ pc = "shape"
    /\ shapes' = mds2dShape(geom)
    /\ pc' = "done"
    /\ UNCHANGED <<dir_exists, mask_exists, shrunk_exists, geom, mask_file,
                   mask, mask_in, sss_shrunk, shrunk_in, sss_east, sss_west,
                   rejoined, error, steps, reused>>

NextShape == PrintShapes

SpecShape == InitShape /\ [][NextShape]_vars

----------------------------------------------------------------------------
(* Properties *)

\* both restoration statements of the current snapshot have run
Restored == pc \in {"split", "done"}

\* position of the k-th cell of m that is != 0
KthWet(m, k) == CHOOSE i \in DOMAIN m : m[i] # Zero /\ WetRank(m, i) = k

\* the values of dense at the cells where m is != 0, in index order
WetValues(dense, m) == [k \in 1..CountNonzero(m) |-> dense[KthWet(m, k)]]

\* the two restoration statements applied to a mask m and a snapshot s
RestoreOnto(m, s) == AssignZero(AssignNonzero(m, s), NaN)

\* C1: after a restoration with a snapshot of matching length, the values
\* at the wet cells of the mask, in index order, are exactly the snapshot,
\* also when the snapshot holds values equal to 0.
C1_WetCellsHoldShrunk ==
    Restored => WetValues(mask, mask_in) = sss_shrunk

\* C2: the restored grid has the length of the mask and every cell where
\* the mask was 0 holds NaN; with an all-zero mask and an empty snapshot
\* every cell holds NaN.
C2_DryCellsMissing ==
    Restored =>
        /\ Len(mask) = Len(mask_in)
        /\ \A i \in DOMAIN mask_in : mask_in[i] = Zero => mask[i] = NaN
        /\ (CountNonzero(mask_in) = 0 /\ sss_shrunk = <<>>) =>
               \A i \in DOMAIN mask : mask[i] = NaN

C2_Witness ==
    /\ Restored
    /\ CountNonzero(mask_in) = 0
    /\ sss_shrunk = <<>>
    /\ Len(mask) = 4
    /\ \A i \in DOMAIN mask : mask[i] = NaN

\* C3: a restoration leaves the mask buffer and the snapshot buffer with
\* the values they held before it.
C3_InputsUnchanged ==
    Restored => (mask = mask_in /\ sss_shrunk = shrunk_in)

\* C4: whenever the snapshot length differs from the number of nonzero
\* mask cells, the restoration raises the mismatch error before any
\* buffer is written, and neither a dense grid nor tiles are produced.
C4_MismatchRaisesBeforeWrite ==
    ("restore" \in steps /\ Len(sss_shrunk) # CountNonzero(mask_in)) =>
        /\ error = "ValueError"
        /\ mask = mask_in
        /\ "fill" \notin steps
        /\ "split" \notin steps
        /\ sss_east = NoArray /\ sss_west = NoArray

\* C5: every snapshot whose length is the wet count of the original mask
\* is restored successfully with the same mask buffer, and the result is
\* the restoration of that snapshot onto the original mask.
C5_MaskReusable ==
    /\ (pc = "failed" /\ error = "ValueError") =>
           Len(sss_shrunk) # CountNonzero(mask_file)
    /\ (Restored /\ Len(sss_shrunk) = CountNonzero(mask_file)) =>
           mask = RestoreOnto(mask_file, sss_shrunk)

\* cells of the two tiles of geometry g
TileCells(g) ==
    {<<"east", r, c>> : r \in 1..mds2dShape(g)[1][1],
                        c \in 1..mds2dShape(g)[1][2]}
    \cup {<<"west", r, c>> : r \in 1..mds2dShape(g)[2][1],
                             c \in 1..mds2dShape(g)[2][2]}

FlatIndex(g, cell) ==
    IF cell[1] = "east" THEN EastIndex(g, cell[2], cell[3])
                        ELSE WestIndex(g, cell[2], cell[3])

FileMissing == ~dir_exists \/ ~mask_exists \/ ~shrunk_exists

PipelineOrder ==
    {<<"check_path", "load_mask">>, <<"load_mask", "load_shrunk">>,
     <<"load_shrunk", "check_len">>, <<"check_len", "restore">>,
     <<"restore", "fill">>, <<"fill", "split">>, <<"split", "done">>,
     <<"done", "check_len">>,
     <<"check_path", "failed">>, <<"load_mask", "failed">>,
     <<"load_shrunk", "failed">>, <<"check_len", "failed">>}

C8_NothingAfterMissingFile ==
    /\ FileMissing =>
          /\ pc \in {"check_path", "load_mask", "load_shrunk", "failed"}
          /\ steps \cap {"check_len", "restore", "fill", "split"} = {}
          /\ mask \in {NoArray, mask_file}
          /\ sss_east = NoArray /\ sss_west = NoArray
          /\ pc = "failed" => error = "FileNotFoundError"
    /\ error = "FileNotFoundError" => (FileMissing /\ pc = "failed")

\* C8: an absent directory, mask file or snapshot file raises
\* FileNotFoundError, after which no statement runs again, and none of the
\* length check, the writes into the mask buffer and the split is executed;
\* the statements only ever run in the order load, check, restore, split.
C8_MissingFileIsFatal ==
    /\ []C8_NothingAfterMissingFile
    /\ [][pc # "failed" /\ <<pc, pc'>> \in PipelineOrder]_vars

C8_Witness ==
    /\ pc = "failed"
    /\ error = "FileNotFoundError"
    /\ mask_exists /\ ~shrunk_exists
    /\ mask = mask_file

C10_RestoredBufferAllWet ==
    reused =>
        /\ CountNonzero(mask_in) = Len(mask_in)
        /\ pc # "check_len" =>
              IF Len(sss_shrunk) = Len(mask_in)
              THEN pc \in {"restore", "fill", "split", "done"}
                   /\ error = "none"
              ELSE pc = "failed" /\ error = "ValueError" /\ mask = mask_in

C10_Witness ==
    /\ reused
    /\ pc = "failed"
    /\ error = "ValueError"
    /\ Len(sss_shrunk) = CountNonzero(mask_file)
    /\ CountNonzero(mask_file) < Len(mask_file)
    /\ mask = mask_in

=============================================================================
